---- MODULE Spec2Model ----
(***************************************************************************)
(* The auto splitter of src/src/lib.rs as a state machine.                 *)
(*                                                                         *)
(* Program state: the fields of the AUTOSPLITTER singleton (game,          *)
(* watchers, settings).  Environment: the game process (proc), the host's  *)
(* timer (timer) and the toggles the user configured (user_settings).      *)
(* last is a history variable: what the most recent call of the exported   *)
(* update() did.  Option<T> is a sequence: <<>> is None, <<x>> is Some(x). *)
(***************************************************************************)
EXTENDS Integers, Sequences, FiniteSets, TLC

VARIABLES game, watchers, settings, proc, timer, user_settings, last

vars == <<game, watchers, settings, proc, timer, user_settings, last>>

None == <<>>
Some(x) == <<x>>

\* ------------------------------------------------------------------------
\* Bounds of the model
\* ------------------------------------------------------------------------

\* Spec lets the game visit the rooms 0..MaxRoomId of its room list.
MaxRoomId == 4

\* ------------------------------------------------------------------------
\* Enumerations and settings
\* ------------------------------------------------------------------------

Acts ==
    {"AngelIsland", "ZoneZero", "GreatTurquoise1", "GreatTurquoise2",
     "SunsetPark1", "SunsetPark2", "SunsetPark3", "MetaJunglira1",
     "MetaJunglira2", "EggZeppelin", "RobotnikWinter1", "RobotnikWinter2",
     "PurplePalace", "TidalPlant1", "TidalPlant2", "TidalPlant3",
     "AtomicDestroyer1", "AtomicDestroyer2", "AtomicDestroyer3",
     "FinalTrouble", "Credits", "None"}

\* The Acts in the order the enum declares them, which is the order of the
\* game's progression; the sentinel None is not part of it.
ActOrder ==
    <<"AngelIsland", "ZoneZero", "GreatTurquoise1", "GreatTurquoise2",
      "SunsetPark1", "SunsetPark2", "SunsetPark3", "MetaJunglira1",
      "MetaJunglira2", "EggZeppelin", "RobotnikWinter1", "RobotnikWinter2",
      "PurplePalace", "TidalPlant1", "TidalPlant2", "TidalPlant3",
      "AtomicDestroyer1", "AtomicDestroyer2", "AtomicDestroyer3",
      "FinalTrouble", "Credits">>

ActRank(a) == CHOOSE i \in DOMAIN ActOrder : ActOrder[i] = a

GameState == {"DataSelect", "GameStart", "Other"}

TimerState == {"NotRunning", "Running", "Paused", "Ended"}

Toggles ==
    {"start", "reset", "zone_zero", "angel_island", "great_turquoise_1",
     "great_turquoise_2", "sunset_park_1", "sunset_park_2", "sunset_park_3",
     "meta_junglira_1", "meta_junglira_2", "egg_zeppelin",
     "robotnik_winter_1", "robotnik_winter_2", "purple_palace",
     "tidal_plant_1", "tidal_plant_2", "tidal_plant_3",
     "atomic_destroyer_1", "atomic_destroyer_2", "atomic_destroyer_3",
     "final_trouble"}

\* Every toggle defaults to enabled.
DefaultSettings == [t \in Toggles |-> TRUE]

AllDisabled == [t \in Toggles |-> FALSE]

Flipped(s) == {[s EXCEPT ![t] = ~s[t]] : t \in Toggles}

\* The configurations Spec draws from: all enabled and all disabled.
TickSettings == {DefaultSettings, AllDisabled}

\* The configurations the policy functions are examined under: all enabled,
\* all disabled, and each of them with any single toggle flipped (every pair
\* of toggles takes all four of its value combinations).
PolicySettings ==
    {DefaultSettings, AllDisabled} \cup Flipped(DefaultSettings) \cup Flipped(AllDisabled)

\* Settings::register reads the user's configuration from the host.
Settings_register == user_settings

\* ------------------------------------------------------------------------
\* The game process: its room list and its memory image
\* ------------------------------------------------------------------------

\* The rooms of the game.  A build numbers them in this order, starting
\* with the room at index `first` of the list (and wrapping around): room
\* id i of the build is RoomNames[((i + first) % Len) + 1].
RoomNames ==
    <<"rmInit", "rmDataSelect", "rmGameStart", "rmZONE0", "rmGTZ1", "rmGTZ2",
      "rmAIZ", "rmZONE0bit", "rmZIBbit", "rmSPZ1", "rmSPZ2", "rmSPZ3",
      "rmMJZ1", "rmMJZ2", "rmEZZ", "rmRWZ1", "rmRWZ_Awa", "rmRWZ2", "rmPPZ",
      "rmTPZ1", "rmTPZ2", "rmTPZ3", "rmADZ1", "rmADZ2", "rmADZ3", "rmFinal",
      "rmFinalEnding", "rmKnuxEnding", "rmKnuxEnding2", "rmCredits",
      "rmSpecialStage">>

AllRoomIds == 0 .. (Len(RoomNames) - 1)

\* The rooms 0..MaxRoomId (MaxRoomId is below the length of the room list).
TourRoomIds == 0 .. MaxRoomId

\* proc is None while the game is not running, Some([pid, is64, first])
\* while it is.
NoProc == None

\* The builds SpecSample examines: room 0 is rmInit, or room 0 is rmZONE0.
SampleBuilds == {0, 3}

\* The module is loaded at a different base for each process instance.
BaseOf(pid) == 4096 * pid

ModuleSize == 2 * 1024

\* Where things lie in the image of a process p = [pid, is64]: the two
\* code locations the signatures match, the data cells they point to, the
\* room array and the room name strings.
Image(p) ==
    LET base == BaseOf(p.pid)
        w == IF p.is64 THEN 8 ELSE 4
    IN [roomid_sig |-> base + 64,
        roomarray_sig |-> base + 512,
        roomid_cell |-> base + 1024,
        roomarray_cell |-> base + 1032,
        array |-> base + 2048 + 1024,
        strings |-> base + 2048 + 2048,
        width |-> w]

SlotOf(p, i) == Image(p).array + i * Image(p).width

StringOf(p, i) == Image(p).strings + i * 32

\* The index of the element at address a of an array of room-list length
\* at `first` with elements `step` apart, or None.
IndexAt(a, first, step) ==
    IF a >= first /\ (a - first) % step = 0 /\ ((a - first) \div step) \in AllRoomIds
    THEN Some((a - first) \div step)
    ELSE None

\* The signatures the image of p contains, and where.  A 64-bit build holds
\* the two 64-bit code shapes, a 32-bit build the two 32-bit ones.
SigAddress(p, sig) ==
    CASE sig = "ROOMID_SIG64" /\ p.is64 -> Some(Image(p).roomid_sig)
      [] sig = "ROOMARRAY_SIG64" /\ p.is64 -> Some(Image(p).roomarray_sig)
      [] sig = "ROOMID_SIG32" /\ ~p.is64 -> Some(Image(p).roomid_sig)
      [] sig = "ROOMARRAY_SIG32" /\ ~p.is64 -> Some(Image(p).roomarray_sig)
      [] OTHER -> None

SigLen(sig) ==
    CASE sig = "ROOMID_SIG32" -> 105
      [] sig = "ROOMID_SIG64" -> 142
      [] sig = "ROOMARRAY_SIG32" -> 12
      [] sig = "ROOMARRAY_SIG64" -> 12

SlotValue(p, i) == IF i = None THEN None ELSE Some(StringOf(p, i[1]))

NameAt(p, i) ==
    IF i = None THEN None
    ELSE Some(RoomNames[((i[1] + p.first) % Len(RoomNames)) + 1])

MemOf(p, img, room, a) ==
    CASE p.is64 /\ a = img.roomid_sig + 2 -> Some(img.roomid_cell - (img.roomid_sig + 2 + 4))
      [] p.is64 /\ a = img.roomarray_sig + 3 -> Some(img.roomarray_cell - (img.roomarray_sig + 3 + 4))
      [] ~p.is64 /\ a = img.roomid_sig + 1 -> Some(img.roomid_cell)
      [] ~p.is64 /\ a = img.roomarray_sig + 1 -> Some(img.roomarray_cell)
      [] a = img.roomid_cell -> Some(room)
      [] a = img.roomarray_cell -> Some(img.array)
      [] OTHER -> SlotValue(p, IndexAt(a, img.array, img.width))

\* The integer stored at address a of process p while the game is in room
\* `room`: the operands of the matched instructions (a displacement
\* relative to the end of the operand in a 64-bit build, an absolute
\* address in a 32-bit one), the room-id cell, the pointer to the room
\* array and the array's slots.  Any other address is not mapped.
Mem(p, room, a) == MemOf(p, Image(p), room, a)

\* The nul-terminated name stored at address a of process p.
MemName(p, a) == NameAt(p, IndexAt(a, Image(p).strings, 32))

\* What can go wrong in one tick while attaching and resolving.
Faults == {"none", "attach", "module", "unreadable", "scan2", "read1", "read2"}

\* What can go wrong in one tick while sampling: the room-id read fails or
\* not, and the name chain fails at its first, second or third read, or not
\* at all (0).
SampleFaults == [id_ok : BOOLEAN, chain : 0 .. 3]

NoSampleFault == [id_ok |-> TRUE, chain |-> 0]

\* ------------------------------------------------------------------------
\* The host's primitives
\* ------------------------------------------------------------------------

\* Process::is_open on the handle of process pid.
is_open(pid, p) == p # NoProc /\ p[1].pid = pid

\* Process::read::<u32>: fails on a closed handle, an unmapped address or
\* when the environment makes this read fail.  Every integer of the image
\* is below 2^31, so the four bytes read are the whole value.
read_u32(pid, p, room, a, ok) ==
    IF ok /\ is_open(pid, p) THEN Mem(p[1], room, a) ELSE None

read_u64(pid, p, room, a, ok) ==
    IF ok /\ is_open(pid, p) THEN Mem(p[1], room, a) ELSE None

\* Process::read::<ArrayCString<25>>: the bytes up to the terminator.
read_name(pid, p, a, ok) ==
    IF ok /\ is_open(pid, p) THEN MemName(p[1], a) ELSE None

\* A match counts when it lies inside [base, base + size).
MatchInRange(found, len, base, size) ==
    IF found = None THEN None
    ELSE IF base <= found[1] /\ found[1] + len <= base + size THEN found
    ELSE None

\* Signature::scan_process_range: the address of the match inside
\* [base, base + size), if the image holds the signature there and the
\* range can be read.
scan_process_range(sig, pid, p, base, size, readable) ==
    IF readable /\ is_open(pid, p)
    THEN MatchInRange(SigAddress(p[1], sig), SigLen(sig), base, size)
    ELSE None

\* Process::attach by name, Process::get_module_address and
\* Process::get_module_size.
Process_attach(p, ok) == IF ok /\ p # NoProc THEN Some(p[1].pid) ELSE None

get_module_address(pid, p, ok) ==
    IF ok /\ is_open(pid, p) THEN Some(BaseOf(pid)) ELSE None

get_module_size(pid, p, ok) ==
    IF ok /\ is_open(pid, p) THEN Some(ModuleSize) ELSE None

\* Faulty variant: the pair is shifted only by a value that differs from
\* current.
Watcher_update_on_change(w, value) ==
    IF w = None
    THEN Some([old |-> value, current |-> value])
    ELSE IF w[1].current = value THEN w
    ELSE Some([old |-> w[1].current, current |-> value])

\* Faulty variant: a later value replaces current and leaves old as it was.
Watcher_update_no_shift(w, value) ==
    IF w = None
    THEN Some([old |-> value, current |-> value])
    ELSE Some([old |-> w[1].old, current |-> value])

\* Watcher::update(Some(value)): the first value fills both fields, every
\* later one shifts current into old.
Watcher_update(w, value) ==
    IF w = None
    THEN Some([old |-> value, current |-> value])
    ELSE Some([old |-> w[1].current, current |-> value])

\* ------------------------------------------------------------------------
\* ProcessInfo
\* ------------------------------------------------------------------------

\* Some(Self { game, is_64_bit, main_module_base, main_module_size,
\* addresses: None }), or None when a module query failed.
NewProcessInfo(pid, main_module_base, main_module_size, p, fault) ==
    IF main_module_base = None \/ main_module_size = None THEN None
    ELSE Some([game |-> pid,
               is_64_bit |->
                   scan_process_range("ROOMID_SIG64", pid, p, main_module_base[1],
                       main_module_size[1], fault # "unreadable") # None,
               main_module_base |-> main_module_base[1],
               main_module_size |-> main_module_size[1],
               addresses |-> None])

\* let game = proc?; and what follows it.
AttachFound(proc_, p, fault) ==
    IF proc_ = None THEN None
    ELSE NewProcessInfo(proc_[1],
             get_module_address(proc_[1], p, fault # "module"),
             get_module_size(proc_[1], p, fault # "module"), p, fault)

attach_process(p, fault) == AttachFound(Process_attach(p, fault # "attach"), p, fault)

\* The address a matched instruction encodes: the operand val read at ptr
\* is a displacement relative to the end of the operand (rel) or the
\* address itself.
OperandTarget(ptr, val, rel) ==
    IF val = None THEN None
    ELSE IF rel THEN Some(ptr + 4 + val[1])
    ELSE Some(val[1])

ReadOperand(self, p, sigscan, off, rel, read_ok) ==
    IF sigscan = None THEN None
    ELSE OperandTarget(sigscan[1] + off,
             read_u32(self.game, p, 0, sigscan[1] + off, read_ok), rel)

\* One found address: the signature scan, then the read of the operand at
\* sigscan + off.
FindAddress(self, p, sig, off, rel, scan_ok, read_ok) ==
    ReadOperand(self, p,
        scan_process_range(sig, self.game, p, self.main_module_base,
                           self.main_module_size, scan_ok),
        off, rel, read_ok)

\* Faulty variant: a missing array address is committed as 0.
MemoryPtr_partial(room_id, room_id_array) ==
    IF room_id = None THEN None
    ELSE Some([room_id |-> room_id[1],
               room_id_array |-> IF room_id_array = None THEN 0 ELSE room_id_array[1]])

\* Some(MemoryPtr { room_id, room_id_array }) when both were found.
MemoryPtr(room_id, room_id_array) ==
    IF room_id = None THEN None
    ELSE IF room_id_array = None THEN None
    ELSE Some([room_id |-> room_id[1], room_id_array |-> room_id_array[1]])

look_for_addresses(self, p, fault) ==
    MemoryPtr(
        IF self.is_64_bit
        THEN FindAddress(self, p, "ROOMID_SIG64", 2, TRUE,
                         fault # "unreadable", fault # "read1")
        ELSE FindAddress(self, p, "ROOMID_SIG32", 1, FALSE,
                         fault # "unreadable", fault # "read1"),
        IF self.is_64_bit
        THEN FindAddress(self, p, "ROOMARRAY_SIG64", 3, TRUE,
                         fault \notin {"unreadable", "scan2"}, fault # "read2")
        ELSE FindAddress(self, p, "ROOMARRAY_SIG32", 1, FALSE,
                         fault \notin {"unreadable", "scan2"}, fault # "read2"))

\* ------------------------------------------------------------------------
\* State
\* ------------------------------------------------------------------------

\* Faulty variant: init reports success whenever a process is attached and open.
InitResolved_attached(g, info, addresses) ==
    [game |-> Some([info EXCEPT !.addresses = addresses]),
     ok |-> TRUE,
     kind |-> IF addresses # None THEN "resolved" ELSE "unresolved",
     attached |-> g = None,
     resolve |-> IF info.addresses # None THEN "skipped"
                 ELSE IF addresses # None THEN "ok" ELSE "failed"]

\* The end of State::init: game.addresses is set and tells the result.
\* resolve says whether look_for_addresses was called ("skipped" when the
\* addresses were cached) and how it ended.
InitResolved(g, info, addresses) ==
    [game |-> Some([info EXCEPT !.addresses = addresses]),
     ok |-> addresses # None,
     kind |-> IF addresses # None THEN "resolved" ELSE "unresolved",
     attached |-> g = None,
     resolve |-> IF info.addresses # None THEN "skipped"
                 ELSE IF addresses # None THEN "ok" ELSE "failed"]

\* Faulty variant: a closed process only has its addresses dropped.
InitAttached_keeps(g, g1, p, fault) ==
    IF g1 = None
    THEN [game |-> None, ok |-> FALSE, kind |-> "no_process",
          attached |-> FALSE, resolve |-> "skipped"]
    ELSE IF ~is_open(g1[1].game, p)
    THEN [game |-> Some([g1[1] EXCEPT !.addresses = None]), ok |-> FALSE, kind |-> "closed",
          attached |-> g = None, resolve |-> "skipped"]
    ELSE InitResolved(g, g1[1],
             IF g1[1].addresses = None
             THEN look_for_addresses(g1[1], p, fault)
             ELSE g1[1].addresses)

\* State::init once self.game is g1 (after the attach attempt, if any).
InitAttached(g, g1, p, fault) ==
    IF g1 = None
    THEN [game |-> None, ok |-> FALSE, kind |-> "no_process",
          attached |-> FALSE, resolve |-> "skipped"]
    ELSE IF ~is_open(g1[1].game, p)
    THEN [game |-> None, ok |-> FALSE, kind |-> "closed",
          attached |-> g = None, resolve |-> "skipped"]
    ELSE InitResolved(g, g1[1],
             IF g1[1].addresses = None
             THEN look_for_addresses(g1[1], p, fault)
             ELSE g1[1].addresses)

\* State::init on the game field g: the new game field, the value returned
\* (ok), and what was done (attached: attach_process was called and
\* returned a process; kind: the way the tick goes on).
State_init(g, p, fault) ==
    InitAttached(g, IF g = None THEN attach_process(p, fault) ELSE g, p, fault)

\* The Act a room name denotes (the arms of the match other than the last).
ActOfRoom(room_name) ==
    CASE room_name \in {"rmAIZ", "rmZONE0bit", "rmZIBbit"} -> Some("AngelIsland")
      [] room_name = "rmZONE0" -> Some("ZoneZero")
      [] room_name = "rmGTZ1" -> Some("GreatTurquoise1")
      [] room_name = "rmGTZ2" -> Some("GreatTurquoise2")
      [] room_name = "rmSPZ1" -> Some("SunsetPark1")
      [] room_name = "rmSPZ2" -> Some("SunsetPark2")
      [] room_name = "rmSPZ3" -> Some("SunsetPark3")
      [] room_name = "rmMJZ1" -> Some("MetaJunglira1")
      [] room_name = "rmMJZ2" -> Some("MetaJunglira2")
      [] room_name = "rmEZZ" -> Some("EggZeppelin")
      [] room_name = "rmRWZ1" -> Some("RobotnikWinter1")
      [] room_name \in {"rmRWZ_Awa", "rmRWZ2"} -> Some("RobotnikWinter2")
      [] room_name = "rmTPZ1" -> Some("TidalPlant1")
      [] room_name = "rmTPZ2" -> Some("TidalPlant2")
      [] room_name = "rmTPZ3" -> Some("TidalPlant3")
      [] room_name = "rmADZ1" -> Some("AtomicDestroyer1")
      [] room_name = "rmADZ2" -> Some("AtomicDestroyer2")
      [] room_name = "rmADZ3" -> Some("AtomicDestroyer3")
      [] room_name = "rmFinal" -> Some("FinalTrouble")
      [] room_name = "rmPPZ" -> Some("PurplePalace")
      [] room_name \in {"rmFinalEnding", "rmKnuxEnding", "rmKnuxEnding2", "rmCredits"} ->
             Some("Credits")
      [] OTHER -> None

\* Faulty variant: an unrecognized name records the sentinel.
ActOf_forgets(room_name, levelid) ==
    IF ActOfRoom(room_name) # None THEN ActOfRoom(room_name)[1] ELSE "None"

\* Faulty variant: a name of an Act earlier in the progression than the
\* current Act is ignored.
ActOf_monotone(room_name, levelid) ==
    IF ActOfRoom(room_name) = None
    THEN (IF levelid # None THEN levelid[1].current ELSE "None")
    ELSE IF levelid = None THEN ActOfRoom(room_name)[1]
    ELSE IF levelid[1].current = "None" THEN ActOfRoom(room_name)[1]
    ELSE IF ActRank(ActOfRoom(room_name)[1]) < ActRank(levelid[1].current)
         THEN levelid[1].current
    ELSE ActOfRoom(room_name)[1]

\* Faulty variant: an unrecognized name gives the old Act of the pair.
ActOf_old(room_name, levelid) ==
    IF ActOfRoom(room_name) # None THEN ActOfRoom(room_name)[1]
    ELSE IF levelid # None THEN levelid[1].old
    ELSE "None"

\* let act = match room_name_bytes { ... }: a recognized name gives its Act,
\* any other name the current Act of the pair, or Acts::None without a pair.
ActOf(room_name, levelid) ==
    IF ActOfRoom(room_name) # None THEN ActOfRoom(room_name)[1]
    ELSE IF levelid # None THEN levelid[1].current
    ELSE "None"

\* let state = match room_name_bytes { ... }
GameStateOf(room_name) ==
    CASE room_name = "rmDataSelect" -> "DataSelect"
      [] room_name = "rmGameStart" -> "GameStart"
      [] OTHER -> "Other"

\* What was sampled: the room id, the room name (empty unless the last
\* read r3 gave one), the addresses read at, in the order of the reads, and
\* whether a read failed (read_failed) and the name was read (name_read).
SampleRecord(addresses, id_read, room_id, chain_reads, r3) ==
    [room_id |-> room_id,
     room_name |-> IF r3 = None THEN "" ELSE r3[1],
     reads |-> <<addresses.room_id, addresses.room_id_array>> \o chain_reads,
     read_failed |-> id_read = None \/ r3 = None,
     name_read |-> r3 # None]

\* proc.read::<u64> for a 64-bit game, proc.read::<u32> for a 32-bit one.
read_ptr(self, p, room, a, ok) ==
    IF self.is_64_bit
    THEN read_u64(self.game, p, room, a, ok)
    ELSE read_u32(self.game, p, room, a, ok)

PtrSize(self) == IF self.is_64_bit THEN 8 ELSE 4

\* The third read: the name at the address r2 the second read gave.
ChainName(self, addresses, p, sf, id_read, room_id, a2, r2) ==
    IF r2 = None
    THEN SampleRecord(addresses, id_read, room_id, <<a2>>, None)
    ELSE SampleRecord(addresses, id_read, room_id, <<a2, r2[1]>>,
             read_name(self.game, p, r2[1], sf.chain # 3))

\* Faulty variant: the slot is looked up at the resolved address itself,
\* without reading the pointer to the array that is stored there.
ChainSlot_direct(self, addresses, p, room, sf, id_read, room_id, r1) ==
    IF r1 = None
    THEN SampleRecord(addresses, id_read, room_id, <<>>, None)
    ELSE ChainName(self, addresses, p, sf, id_read, room_id,
             addresses.room_id_array + room_id * PtrSize(self),
             read_ptr(self, p, room, addresses.room_id_array + room_id * PtrSize(self),
                      sf.chain # 2))

\* The second read, at addr + room_id * pointer size, addr being what the
\* first read r1 gave.
ChainSlot(self, addresses, p, room, sf, id_read, room_id, r1) ==
    IF r1 = None
    THEN SampleRecord(addresses, id_read, room_id, <<>>, None)
    ELSE ChainName(self, addresses, p, sf, id_read, room_id,
             r1[1] + room_id * PtrSize(self),
             read_ptr(self, p, room, r1[1] + room_id * PtrSize(self), sf.chain # 2))

\* The first read of the chain, at addresses.room_id_array; the room id is
\* 0 when its read failed.
ChainArray(self, addresses, p, room, sf, id_read) ==
    ChainSlot(self, addresses, p, room, sf, id_read,
        IF id_read # None THEN id_read[1] ELSE 0,
        read_ptr(self, p, room, addresses.room_id_array, sf.chain # 1))

\* The sampling part of State::update: the room id, then the chain of
\* three reads that ends in the room name, which stays empty when one of
\* them fails.
Sample(self, addresses, p, room, sf) ==
    ChainArray(self, addresses, p, room, sf,
        read_u32(self.game, p, room, addresses.room_id, sf.id_ok))

NoSample ==
    [room_id |-> 0, room_name |-> "", reads |-> <<>>, read_failed |-> FALSE,
     name_read |-> FALSE]

\* Faulty variant: the GameState pair is left alone by a name that is neither
\* rmDataSelect nor rmGameStart.
UpdateWatchers_lazy(w, smp) ==
    [watchers |-> [state |-> IF GameStateOf(smp.room_name) = "Other" /\ w.state # None
                             THEN w.state
                             ELSE Watcher_update(w.state, GameStateOf(smp.room_name)),
                   levelid |-> Watcher_update(w.levelid, ActOf(smp.room_name, w.levelid))],
     sample |-> smp,
     updated |-> TRUE]

\* Faulty variant: a name that is neither rmDataSelect nor rmGameStart gives
\* the current GameState of the pair, as an unrecognized name does for the
\* Act.
UpdateWatchers_retains(w, smp) ==
    [watchers |-> [state |-> Watcher_update(w.state,
                                 IF GameStateOf(smp.room_name) = "Other" /\ w.state # None
                                 THEN w.state[1].current
                                 ELSE GameStateOf(smp.room_name)),
                   levelid |-> Watcher_update(w.levelid, ActOf(smp.room_name, w.levelid))],
     sample |-> smp,
     updated |-> TRUE]

\* The two Watcher updates that end State::update.
UpdateWatchers(w, smp) ==
    [watchers |-> [state |-> Watcher_update(w.state, GameStateOf(smp.room_name)),
                   levelid |-> Watcher_update(w.levelid, ActOf(smp.room_name, w.levelid))],
     sample |-> smp,
     updated |-> TRUE]

\* State::update: the new watchers and what was sampled.
State_update(g, w, p, room, sf) ==
    IF g = None THEN [watchers |-> w, sample |-> NoSample, updated |-> FALSE]
    ELSE IF g[1].addresses = None THEN [watchers |-> w, sample |-> NoSample, updated |-> FALSE]
    ELSE UpdateWatchers(w, Sample(g[1], g[1].addresses[1], p, room, sf))

\* Faulty variant: start gated by the reset toggle.
State_start_by_reset(st, w) ==
    IF st = None THEN FALSE
    ELSE IF ~st[1].reset THEN FALSE
    ELSE IF w.state = None THEN FALSE
    ELSE w.state[1].old = "DataSelect" /\ w.state[1].current = "GameStart"

State_start(st, w) ==
    IF st = None THEN FALSE
    ELSE IF ~st[1].start THEN FALSE
    ELSE IF w.state = None THEN FALSE
    ELSE w.state[1].old = "DataSelect" /\ w.state[1].current = "GameStart"

\* match levelid.current { ... }: one arm per Act that can be entered.
SplitMatch(s, levelid) ==
    CASE levelid.current = "GreatTurquoise1" ->
                (s.zone_zero /\ levelid.old = "ZoneZero")
                    \/ (s.angel_island /\ levelid.old = "AngelIsland")
         [] levelid.current = "GreatTurquoise2" ->
                s.great_turquoise_1 /\ levelid.old = "GreatTurquoise1"
         [] levelid.current = "SunsetPark1" ->
                s.great_turquoise_2 /\ levelid.old = "GreatTurquoise2"
         [] levelid.current = "SunsetPark2" ->
                s.sunset_park_1 /\ levelid.old = "SunsetPark1"
         [] levelid.current = "SunsetPark3" ->
                s.sunset_park_2 /\ levelid.old = "SunsetPark2"
         [] levelid.current = "MetaJunglira1" ->
                s.sunset_park_3 /\ levelid.old = "SunsetPark3"
         [] levelid.current = "MetaJunglira2" ->
                s.meta_junglira_1 /\ levelid.old = "MetaJunglira1"
         [] levelid.current = "EggZeppelin" ->
                s.meta_junglira_2 /\ levelid.old = "MetaJunglira2"
         [] levelid.current = "RobotnikWinter1" ->
                s.egg_zeppelin /\ levelid.old = "EggZeppelin"
         [] levelid.current = "RobotnikWinter2" ->
                s.robotnik_winter_1 /\ levelid.old = "RobotnikWinter1"
         [] levelid.current = "PurplePalace" ->
                s.robotnik_winter_2 /\ levelid.old = "RobotnikWinter2"
         [] levelid.current = "TidalPlant1" ->
                (s.robotnik_winter_2 /\ levelid.old = "RobotnikWinter2")
                    \/ (s.purple_palace /\ levelid.old = "PurplePalace")
         [] levelid.current = "TidalPlant2" ->
                s.tidal_plant_1 /\ levelid.old = "TidalPlant1"
         [] levelid.current = "TidalPlant3" ->
                s.tidal_plant_2 /\ levelid.old = "TidalPlant2"
         [] levelid.current = "AtomicDestroyer1" ->
                s.tidal_plant_3 /\ levelid.old = "TidalPlant3"
         [] levelid.current = "AtomicDestroyer2" ->
                s.atomic_destroyer_1 /\ levelid.old = "AtomicDestroyer1"
         [] levelid.current = "AtomicDestroyer3" ->
                s.atomic_destroyer_2 /\ levelid.old = "AtomicDestroyer2"
         [] levelid.current = "FinalTrouble" ->
                s.atomic_destroyer_3 /\ levelid.old = "AtomicDestroyer3"
         [] levelid.current = "Credits" ->
                (s.atomic_destroyer_3 /\ levelid.old = "AtomicDestroyer3")
                    \/ (s.final_trouble /\ levelid.old = "FinalTrouble")
         [] OTHER -> FALSE

\* Faulty variant: the toggles are taken from the defaults, not from the settings.
State_split_defaults(st, w) ==
    IF w.levelid = None THEN FALSE
    ELSE IF st = None THEN FALSE
    ELSE SplitMatch(DefaultSettings, w.levelid[1])

\* Faulty variant: old and current are taken the wrong way round.
State_split_swapped(st, w) ==
    IF w.levelid = None THEN FALSE
    ELSE IF st = None THEN FALSE
    ELSE SplitMatch(st[1], [old |-> w.levelid[1].current, current |-> w.levelid[1].old])

State_split(st, w) ==
    IF w.levelid = None THEN FALSE
    ELSE IF st = None THEN FALSE
    ELSE SplitMatch(st[1], w.levelid[1])

State_reset(st, w) ==
    IF st = None THEN FALSE
    ELSE IF ~st[1].reset THEN FALSE
    ELSE IF w.state = None THEN FALSE
    ELSE w.state[1].old = "DataSelect" /\ w.state[1].current = "GameStart"

\* State::is_loading and State::game_time always return None.
State_is_loading == None

State_game_time == None

\* ------------------------------------------------------------------------
\* The host's timer
\* ------------------------------------------------------------------------

\* The state the timer reports after a command: the host carries the
\* command out at once (applied) or has not yet done so when the state is
\* read again.  A split of a running timer leaves it running or, when it
\* was the last segment, ended (applied).
HostAfter(cmd, ts, applied) ==
    CASE cmd = "reset" -> IF applied THEN "NotRunning" ELSE ts
      [] cmd = "split" -> IF applied /\ ts = "Running" THEN "Ended" ELSE ts
      [] cmd = "start" -> IF applied /\ ts = "NotRunning" THEN "Running" ELSE ts

HostChoices == [first : BOOLEAN, second : BOOLEAN]

\* ------------------------------------------------------------------------
\* The exported update(): one tick
\* ------------------------------------------------------------------------

\* Faulty variant: every state but NotRunning counts.
InRun_not_stopped(timer_state) == timer_state # "NotRunning"

\* timer_state == TimerState::Running || timer_state == TimerState::Paused
InRun(timer_state) == timer_state = "Running" \/ timer_state = "Paused"

\* What the splitting logic did: the commands issued (cmds), the State
\* functions evaluated (evals), the two timer states read (ts1, ts2) and
\* the timer's state afterwards.
SplittingRecord(ts, t1, t2, evals, do_reset, do_split, do_start) ==
    [cmds |-> (IF do_reset THEN <<"reset">> ELSE <<>>)
              \o (IF do_split THEN <<"split">> ELSE <<>>)
              \o (IF do_start THEN <<"start">> ELSE <<>>),
     evals |-> evals,
     ts1 |-> ts,
     ts2 |-> t1,
     timer |-> t2]

\* Faulty variant: start is decided on the timer state ts read before the
\* reset/split step, not on the state read again.
StartStep_stale(st, w, ts, t1, h, evals, do_reset, do_split) ==
    SplittingRecord(ts, t1,
        IF ts = "NotRunning" /\ State_start(st, w) THEN HostAfter("start", t1, h.second) ELSE t1,
        evals \o (IF ts = "NotRunning" THEN <<"start">> ELSE <<>>),
        do_reset, do_split, ts = "NotRunning" /\ State_start(st, w))

\* if timer::state() == TimerState::NotRunning && autosplitter.start()
\* { timer::start() }: start is evaluated only when the timer state t1,
\* read again, is NotRunning.
StartStep(st, w, ts, t1, h, evals, do_reset, do_split) ==
    SplittingRecord(ts, t1,
        IF t1 = "NotRunning" /\ State_start(st, w) THEN HostAfter("start", t1, h.second) ELSE t1,
        evals \o (IF t1 = "NotRunning" THEN <<"start">> ELSE <<>>),
        do_reset, do_split, t1 = "NotRunning" /\ State_start(st, w))

\* timer::reset() or timer::split() reaches the host.
ResetOrSplit(st, w, ts, h, evals, do_reset, do_split) ==
    StartStep(st, w, ts,
        IF do_reset THEN HostAfter("reset", ts, h.first)
        ELSE IF do_split THEN HostAfter("split", ts, h.first)
        ELSE ts,
        h, evals, do_reset, do_split)

\* Faulty variant: the else is missing, split is evaluated after reset as well.
ResetStep_no_else(st, w, ts, h, do_reset) ==
    ResetOrSplit(st, w, ts, h,
        <<"is_loading", "game_time", "reset", "split">>,
        do_reset, State_split(st, w))

\* if autosplitter.reset() { timer::reset() } else if autosplitter.split()
\* { timer::split() }: split is evaluated only when reset returned false.
ResetStep(st, w, ts, h, do_reset) ==
    ResetOrSplit(st, w, ts, h,
        <<"is_loading", "game_time", "reset">> \o (IF do_reset THEN <<>> ELSE <<"split">>),
        do_reset, ~do_reset /\ State_split(st, w))

\* The branch taken when the timer is Running or Paused.
InRunBranch(st, w, ts, h) == ResetStep(st, w, ts, h, State_reset(st, w))

\* The splitting logic that follows autosplitter.update().
SplittingLogic(st, w, ts, h) ==
    IF InRun(ts)
    THEN InRunBranch(st, w, ts, h)
    ELSE StartStep(st, w, ts, ts, h, <<>>, FALSE, FALSE)

NoSplitting(ts) ==
    [cmds |-> <<>>, evals |-> <<>>, ts1 |-> "unread", ts2 |-> "unread", timer |-> ts]

\* What a tick leaves in the history variable; repeated tells that the tick
\* before this one updated too, with the same room name.
TickRecord(i, fault, u, t) ==
    [kind |-> i.kind, attached |-> i.attached, resolve |-> i.resolve, fault |-> fault,
     updated |-> u.updated, room_name |-> u.sample.room_name,
     room_id |-> u.sample.room_id, reads |-> u.sample.reads,
     read_failed |-> u.sample.read_failed, name_read |-> u.sample.name_read,
     repeated |-> last.updated /\ u.updated /\ u.sample.room_name = last.room_name,
     cmds |-> t.cmds, evals |-> t.evals, ts1 |-> t.ts1, ts2 |-> t.ts2]

NoTick ==
    [kind |-> "none", attached |-> FALSE, resolve |-> "skipped", fault |-> "none",
     updated |-> FALSE, room_name |-> "", room_id |-> 0, reads |-> <<>>,
     read_failed |-> FALSE, name_read |-> FALSE, repeated |-> FALSE,
     cmds |-> <<>>, evals |-> <<>>, ts1 |-> "unread", ts2 |-> "unread"]

\* A fault strikes only a tick that attaches or resolves.
FaultsNow(F) ==
    IF proc # NoProc /\ (game = None \/ game[1].addresses = None) THEN F ELSE {"none"}

\* The outcomes of State::init under the faults F, each with its fault.
InitOutcomes(F) == {<<State_init(game, proc, f), f>> : f \in FaultsNow(F)}

\* Faulty variant: the watcher pairs are cleared when the process is found
\* closed.
InitFailed_clears(i, w) ==
    IF i.kind = "closed" THEN [state |-> None, levelid |-> None] ELSE w

\* if !autosplitter.init() { return; }: the tick ends there, whatever made
\* init fail, and the watcher pairs w stay as they are.
InitFailed(i, w) == w

\* pub extern "C" fn update(), with the faults F, the rooms R the game may
\* be in and the sampling faults SF the environment may produce.
update(F, R, SF) ==
    \E io \in InitOutcomes(F) :
        LET i == io[1]
            st == IF settings = None THEN Some(Settings_register) ELSE settings
        IN /\ settings' = st
           /\ game' = i.game
           /\ UNCHANGED <<proc, user_settings>>
           /\ IF ~i.ok
              THEN /\ watchers' = InitFailed(i, watchers)
                   /\ UNCHANGED timer
                   /\ last' = TickRecord(i, io[2],
                                 [watchers |-> watchers, sample |-> NoSample, updated |-> FALSE],
                                 NoSplitting(timer))
              ELSE \E u \in {State_update(i.game, watchers, proc, room, sf) :
                                 room \in R, sf \in SF} :
                   \E t \in {SplittingLogic(st, u.watchers, timer, h) : h \in HostChoices} :
                       /\ watchers' = u.watchers
                       /\ timer' = t.timer
                       /\ last' = TickRecord(i, io[2], u, t)

\* ------------------------------------------------------------------------
\* The environment
\* ------------------------------------------------------------------------

\* The id of the next process: the lowest one that is not the id of a
\* process the auto splitter still holds a handle to.
NextPid == IF game # None /\ game[1].game = 1 THEN 2 ELSE 1

\* The game is launched: a new process, of the 32-bit or the 64-bit build,
\* whose room 0 is rmInit (SpecSample examines the other numbering).
Launch ==
    /\ proc = NoProc
    /\ \E is64 \in BOOLEAN : proc' = Some([pid |-> NextPid, is64 |-> is64, first |-> 0])
    /\ UNCHANGED <<game, watchers, settings, timer, user_settings, last>>

\* The game exits.
Exit ==
    /\ proc # NoProc
    /\ proc' = NoProc
    /\ UNCHANGED <<game, watchers, settings, timer, user_settings, last>>

\* The user starts, pauses, resumes, finishes or resets the timer by hand.
UserTimer ==
    /\ \E ts \in TimerState : ts # timer /\ timer' = ts
    /\ UNCHANGED <<game, watchers, settings, proc, user_settings, last>>

\* ------------------------------------------------------------------------
\* Specifications
\* ------------------------------------------------------------------------

InitProgram ==
    /\ game = None
    /\ watchers = [state |-> None, levelid |-> None]
    /\ settings = None
    /\ last = NoTick

\* Spec: the whole environment (launches, exits, every fault of attaching
\* and resolving, the user at the timer), the game touring the rooms
\* 0..MaxRoomId; the sampling reads of a tick all succeed or all fail.
Init ==
    /\ InitProgram
    /\ proc = NoProc
    /\ timer \in TimerState
    /\ user_settings \in TickSettings

\* In Spec a tick samples with every read succeeding or with the room-id
\* read and the first read of the chain failing.
TickFaults == {NoSampleFault, [id_ok |-> FALSE, chain |-> 1]}

Tick == update(Faults, TourRoomIds, TickFaults)

Next == Tick \/ Launch \/ Exit \/ UserTimer

Spec == Init /\ [][Next]_vars

\* SpecPolicy: the act state machine on every room of the game, in a quiet
\* environment: the game runs throughout, attaching and resolving never
\* fail, of the sampling reads only the last one can fail, and the timer
\* has ended and is left alone, so no command is issued.  The watchers
\* evolve the same way under every configuration, so the settings stay at
\* their defaults and the policy functions are examined under each
\* configuration of PolicySettings in the states reached.
InitPolicy ==
    /\ InitProgram
    /\ proc \in {Some([pid |-> 1, is64 |-> b, first |-> 0]) : b \in BOOLEAN}
    /\ timer = "Ended"
    /\ user_settings = DefaultSettings

\* In SpecPolicy only the last read of the chain can fail.
PolicyFaults == {[id_ok |-> TRUE, chain |-> 0], [id_ok |-> TRUE, chain |-> 3]}

NoFault == {"none"}

TickPolicy == update(NoFault, AllRoomIds, PolicyFaults)

NextPolicy == TickPolicy

SpecPolicy == InitPolicy /\ [][NextPolicy]_vars

\* SpecSample: the sampling step under every combination of failing reads,
\* on the rooms 0..MaxRoomId of builds that number their rooms differently;
\* the environment is quiet otherwise, as in SpecPolicy.
InitSample ==
    /\ InitProgram
    /\ proc \in {Some([pid |-> 1, is64 |-> b, first |-> f]) : b \in BOOLEAN, f \in SampleBuilds}
    /\ timer = "Ended"
    /\ user_settings = DefaultSettings

TickSample == update(NoFault, TourRoomIds, SampleFaults)

NextSample == TickSample

SpecSample == InitSample /\ [][NextSample]_vars

\* ------------------------------------------------------------------------
\* Vocabulary of the properties
\* ------------------------------------------------------------------------

\* A step of the exported update() that changed the program's state or did
\* something else than the tick before it.
TickStep == <<game, watchers, settings, last>>' # <<game, watchers, settings, last>>

\* Every value the settings field can hold under the configurations
\* examined: not yet registered, or one of PolicySettings.
PolicySnapshots == {None} \cup {Some(s) : s \in PolicySettings}

ActPair(old, current) == Some([old |-> old, current |-> current])

\* ------------------------------------------------------------------------
\* C1
\* ------------------------------------------------------------------------

\* An update whose room name is no act token leaves the current Act as it
\* was.
C1_PersistStep ==
    (TickStep /\ last'.updated /\ ActOfRoom(last'.room_name) = None /\ watchers.levelid # None)
        => watchers'.levelid[1].current = watchers.levelid[1].current

C1_Quiet(w) ==
    /\ w.levelid = ActPair("GreatTurquoise1", "GreatTurquoise1")
    /\ \A st \in PolicySnapshots : ~State_split(st, w)

\* The three updates of the scenario rmGTZ1, <unreadable>, rmGTZ1 from the
\* fresh state, each taken from the state the one before it leaves.
C1_ScenarioStep ==
    /\ (TickStep /\ last'.updated /\ watchers.levelid = None /\ last'.room_name = "rmGTZ1")
           => C1_Quiet(watchers')
    /\ (TickStep /\ last'.updated /\ C1_Quiet(watchers)
            /\ (last'.room_name = "rmGTZ1" \/ (last'.room_name = "" /\ last'.read_failed)))
           => C1_Quiet(watchers')

\* C1: persistence law.  Every update whose room token is not a recognized
\* act token (the empty token of a failed name read included) leaves the
\* current Act of the pair unchanged; the samples rmGTZ1, <unreadable>,
\* rmGTZ1 from a fresh state keep the pair at (GreatTurquoise1,
\* GreatTurquoise1) on every tick, and should_split is never true.
C1_Persistence == [][C1_PersistStep /\ C1_ScenarioStep]_vars

\* An unreadable sample arrived while the pair was (GreatTurquoise1,
\* GreatTurquoise1) and left it there.
C1_Witness ==
    /\ last.updated /\ last.room_name = "" /\ last.read_failed
    /\ watchers.levelid = ActPair("GreatTurquoise1", "GreatTurquoise1")

\* ------------------------------------------------------------------------
\* C2
\* ------------------------------------------------------------------------

\* The edges of the split table: predecessor Act, target Act, toggle.
SplitEdges ==
    {<<"ZoneZero", "GreatTurquoise1", "zone_zero">>,
     <<"AngelIsland", "GreatTurquoise1", "angel_island">>,
     <<"GreatTurquoise1", "GreatTurquoise2", "great_turquoise_1">>,
     <<"GreatTurquoise2", "SunsetPark1", "great_turquoise_2">>,
     <<"SunsetPark1", "SunsetPark2", "sunset_park_1">>,
     <<"SunsetPark2", "SunsetPark3", "sunset_park_2">>,
     <<"SunsetPark3", "MetaJunglira1", "sunset_park_3">>,
     <<"MetaJunglira1", "MetaJunglira2", "meta_junglira_1">>,
     <<"MetaJunglira2", "EggZeppelin", "meta_junglira_2">>,
     <<"EggZeppelin", "RobotnikWinter1", "egg_zeppelin">>,
     <<"RobotnikWinter1", "RobotnikWinter2", "robotnik_winter_1">>,
     <<"RobotnikWinter2", "PurplePalace", "robotnik_winter_2">>,
     <<"RobotnikWinter2", "TidalPlant1", "robotnik_winter_2">>,
     <<"PurplePalace", "TidalPlant1", "purple_palace">>,
     <<"TidalPlant1", "TidalPlant2", "tidal_plant_1">>,
     <<"TidalPlant2", "TidalPlant3", "tidal_plant_2">>,
     <<"TidalPlant3", "AtomicDestroyer1", "tidal_plant_3">>,
     <<"AtomicDestroyer1", "AtomicDestroyer2", "atomic_destroyer_1">>,
     <<"AtomicDestroyer2", "AtomicDestroyer3", "atomic_destroyer_2">>,
     <<"AtomicDestroyer3", "FinalTrouble", "atomic_destroyer_3">>,
     <<"AtomicDestroyer3", "Credits", "atomic_destroyer_3">>,
     <<"FinalTrouble", "Credits", "final_trouble">>}

\* The tick before this step sampled a room of Act a, this step one of Act b.
FedThen(a, b) ==
    /\ last.updated /\ ActOfRoom(last.room_name) = Some(a)
    /\ TickStep /\ last'.updated /\ ActOfRoom(last'.room_name) = Some(b)

C2_EdgeStep ==
    \A e \in SplitEdges :
        FedThen(e[1], e[2]) =>
            \A s \in PolicySettings : State_split(Some(s), watchers') = s[e[3]]

\* C2: split round-trip and fan-in.  For every edge (predecessor, target,
\* toggle) of the split table, a sample of the predecessor followed by a
\* sample of the target makes should_split true when the edge's toggle is
\* enabled and false when it is disabled, whatever the other toggles are.
C2_RoundTrip == [][C2_EdgeStep]_vars

\* rmZONE0 then rmGTZ1 were sampled.
C2_Witness ==
    /\ last.updated /\ last.room_name = "rmGTZ1"
    /\ watchers.levelid = ActPair("ZoneZero", "GreatTurquoise1")
    /\ State_split(settings, watchers)

\* ------------------------------------------------------------------------
\* C3
\* ------------------------------------------------------------------------

C3_Transition(w) ==
    w.state # None /\ w.state[1].old = "DataSelect" /\ w.state[1].current = "GameStart"

\* should_start and should_reset in the current state, under every
\* configuration: the transition test gated by the function's own toggle.
C3_Law ==
    \A st \in PolicySnapshots :
        /\ State_start(st, watchers) = (st # None /\ st[1].start /\ C3_Transition(watchers))
        /\ State_reset(st, watchers) = (st # None /\ st[1].reset /\ C3_Transition(watchers))

\* rmDataSelect immediately followed by rmGameStart is the transition.
C3_FeedStep ==
    (/\ last.updated /\ last.room_name = "rmDataSelect"
     /\ TickStep /\ last'.updated /\ last'.room_name = "rmGameStart")
        => C3_Transition(watchers')

\* C3: start/reset law.  After an update with rmDataSelect immediately
\* followed by one with rmGameStart, should_start is true iff the start
\* toggle is enabled and should_reset iff the reset toggle is, each
\* whatever the other toggle is; in every other state of the GameState pair
\* both are false.
C3_StartReset == [](C3_Law) /\ [][C3_FeedStep]_vars

\* rmDataSelect then rmGameStart were sampled.
C3_Witness ==
    /\ last.updated /\ last.room_name = "rmGameStart"
    /\ C3_Transition(watchers)
    /\ State_start(settings, watchers) /\ State_reset(settings, watchers)

\* ------------------------------------------------------------------------
\* C4
\* ------------------------------------------------------------------------

Issued(cmd) == \E k \in DOMAIN last.cmds : last.cmds[k] = cmd

Evaluated(fn) == \E k \in DOMAIN last.evals : last.evals[k] = fn

\* C4: in no tick are both timer::reset() and timer::split() issued; reset
\* is evaluated before split, and in a tick where reset fires split is
\* neither evaluated nor issued.
C4_ResetExcludesSplit ==
    /\ ~(Issued("reset") /\ Issued("split"))
    /\ Issued("reset") => ~Evaluated("split")
    /\ \A k \in DOMAIN last.evals :
           last.evals[k] = "split" => \E j \in 1 .. (k - 1) : last.evals[j] = "reset"

\* A tick issued timer::reset().
C4_Witness == Issued("reset") /\ Evaluated("reset") /\ last.ts1 = "Running"

\* ------------------------------------------------------------------------
\* C5
\* ------------------------------------------------------------------------

Count(cmd) == Cardinality({k \in DOMAIN last.cmds : last.cmds[k] = cmd})

TimerCommands == {"start", "split", "reset"}

\* C5: timer-state gating of the tick.  timer::reset() and timer::split()
\* are issued only in a tick whose timer state read after the update is
\* Running or Paused, timer::start() only when the timer state read again
\* after the reset/split step is NotRunning, and each of the three at most
\* once per tick.
C5_TimerGating ==
    /\ (Issued("reset") \/ Issued("split")) => last.ts1 \in {"Running", "Paused"}
    /\ Issued("start") => last.ts2 = "NotRunning"
    /\ \A cmd \in TimerCommands : Count(cmd) <= 1

\* A tick issued timer::split() while the timer was paused.
C5_Witness == last.cmds = <<"split">> /\ last.ts1 = "Paused"

\* ------------------------------------------------------------------------
\* C6
\* ------------------------------------------------------------------------

\* C6: should_split is false in every state whose current Act is the
\* sentinel None or an Act without an entry in the split table (AngelIsland,
\* ZoneZero), for every old Act and every configuration, and whenever the
\* Act pair was never updated or the settings are not yet registered.
C6_NeverSplit ==
    \A st \in PolicySnapshots :
        (\/ st = None
         \/ watchers.levelid = None
         \/ watchers.levelid[1].current \in {"None", "AngelIsland", "ZoneZero"})
            => ~State_split(st, watchers)

\* The game went back from Great Turquoise 1 to Zone Zero.
C6_Witness ==
    /\ last.updated
    /\ watchers.levelid = ActPair("GreatTurquoise1", "ZoneZero")

\* ------------------------------------------------------------------------
\* C7
\* ------------------------------------------------------------------------

\* The addresses of the two cells in the image of the process with id pid
\* and pointer width is64.
CellsOf(pid, is64) ==
    [room_id |-> Image([pid |-> pid, is64 |-> is64]).roomid_cell,
     room_id_array |-> Image([pid |-> pid, is64 |-> is64]).roomarray_cell]

Resolved(g) == g # None /\ g[1].addresses # None

\* Committed addresses are the two cells of the attached process, both.
C7_BothOrNone ==
    Resolved(game) => game[1].addresses[1] = CellsOf(game[1].game, game[1].is_64_bit)

\* Once resolved, a tick that does not find the process closed keeps the
\* game field as it is and does not call look_for_addresses.
C7_CachedStep ==
    (Resolved(game) /\ TickStep /\ last'.kind # "closed")
        => game' = game /\ last'.resolve = "skipped"

\* C7: resolution is all-or-nothing and cached.  Within one attachment the
\* addresses go from unresolved to resolved at most once, both together; no
\* state has only one of the two committed; once resolved they never
\* change and resolution is not attempted again until the process is
\* detected closed.
C7_AllOrNothing == [](C7_BothOrNone) /\ [][C7_CachedStep]_vars

\* A tick used addresses resolved by an earlier tick.
C7_Witness ==
    Resolved(game) /\ last.kind = "resolved" /\ last.resolve = "skipped" /\ last.updated

\* ------------------------------------------------------------------------
\* C8
\* ------------------------------------------------------------------------

\* The first resolve attempt of the attachment has just failed on an
\* unreadable module image, and the process is still open.
C8_FailedUnreadable ==
    /\ last.attached /\ last.resolve = "failed" /\ last.fault = "unreadable"
    /\ game # None /\ game[1].addresses = None
    /\ is_open(game[1].game, proc)

\* C8: resolution retry.  When the first resolve attempt of an attachment
\* failed because the module image was unreadable, a later tick of the same
\* attachment in which the module is readable and holds the signatures
\* resolves the addresses, for a 64-bit and for a 32-bit target.
C8_RetrySucceeds ==
    [][(C8_FailedUnreadable /\ TickStep /\ last'.fault = "none") => Resolved(game')]_vars

\* ------------------------------------------------------------------------
\* C9
\* ------------------------------------------------------------------------

\* A tick that finds the attached process closed drops the whole game
\* field (handle, module base and size, pointer width, addresses) and
\* samples nothing.
C9_ClosedStep ==
    (game # None /\ ~is_open(game[1].game, proc) /\ TickStep)
        => game' = None /\ last'.kind = "closed" /\ ~last'.updated

\* A tick samples only through a handle of the running process and the
\* addresses of that process's own image, which this attachment resolved:
\* in this tick, unless the game field held them before for the same
\* process.
C9_SampleStep ==
    (TickStep /\ last'.updated)
        => /\ Resolved(game') /\ is_open(game'[1].game, proc)
           /\ game'[1].addresses[1] = CellsOf(proc[1].pid, proc[1].is64)
           /\ \/ last'.resolve = "ok"
              \/ Resolved(game) /\ game' = game

\* C9: process-closed invalidation.  A tick that finds the attached
\* process no longer open discards the process handle, module base/size,
\* pointer width and resolved addresses together, and no later tick samples
\* until a new attach and a full resolution for the new attachment have
\* succeeded; addresses are never carried over from an earlier attachment.
C9_ClosedInvalidates == [][C9_ClosedStep /\ C9_SampleStep]_vars

\* A tick found the process closed after the game had been sampled.
C9_Witness ==
    last.kind = "closed" /\ game = None /\ watchers.levelid # None

\* ------------------------------------------------------------------------
\* C10
\* ------------------------------------------------------------------------

\* C10: a failed tick skips the update.  In every tick where init fails (no
\* process found, process detected closed, addresses still unresolved) both
\* watcher pairs are left exactly as they were and no timer command is
\* issued.
C10_FailedTickSkips ==
    [][(TickStep /\ last'.kind \in {"no_process", "closed", "unresolved"})
          => /\ watchers' = watchers
             /\ ~last'.updated
             /\ last'.cmds = <<>>
             /\ timer' = timer]_vars

\* Resolution failed in a tick in which start would have fired.
C10_Witness ==
    /\ last.kind = "unresolved"
    /\ timer = "NotRunning"
    /\ State_start(settings, watchers)

\* ------------------------------------------------------------------------
\* C11
\* ------------------------------------------------------------------------

\* The pair `after` is the pair `before` shifted: old is the value current
\* held before; the first value of a pair fills both fields.
Shifted(before, after) ==
    /\ after # None
    /\ after[1].old = (IF before = None THEN after[1].current ELSE before[1].current)

\* C11: shift invariant of the watcher pairs.  Every tick that reaches
\* State::update updates both pairs; after every update but the first, old
\* is the value current held immediately before that update, in the Act
\* pair and in the GameState pair; after the first update old equals
\* current.
C11_ShiftInvariant ==
    [][(TickStep /\ last'.kind = "resolved")
          => /\ last'.updated
             /\ Shifted(watchers.levelid, watchers'.levelid)
             /\ Shifted(watchers.state, watchers'.state)]_vars

\* A later update has shifted both pairs: from Great Turquoise 1 the game
\* went through the start screen to Zone Zero.
C11_Witness ==
    /\ last.updated /\ last.room_name = "rmZONE0"
    /\ watchers.levelid = ActPair("GreatTurquoise1", "ZoneZero")
    /\ watchers.state = Some([old |-> "GameStart", current |-> "Other"])

\* ------------------------------------------------------------------------
\* C12
\* ------------------------------------------------------------------------

Settled(pair) == pair # None /\ pair[1].old = pair[1].current

\* C12: idempotence of update.  Two updates in a row with the same sample,
\* recognized or not (the empty token of a failed read included), leave
\* old = current in the Act pair and in the GameState pair after the
\* second.
C12_Idempotent ==
    [][(TickStep /\ last'.repeated)
          => /\ last.updated /\ last'.updated /\ last'.room_name = last.room_name
             /\ Settled(watchers'.levelid)
             /\ Settled(watchers'.state)]_vars

\* rmGTZ2 was sampled twice in a row.
C12_Witness ==
    /\ last.updated /\ last.repeated /\ last.room_name = "rmGTZ2"
    /\ watchers.levelid = ActPair("GreatTurquoise2", "GreatTurquoise2")
    /\ watchers.state = Some([old |-> "Other", current |-> "Other"])

\* ------------------------------------------------------------------------
\* C13
\* ------------------------------------------------------------------------

\* C13: a failed read gives no new information.  In a tick where a memory
\* read of the sampling step fails (the room-id read, or a read of the
\* room-name pointer chain), the current Act after the update is the
\* current Act before it.
C13_FailedReadKeepsAct ==
    [][(TickStep /\ last'.updated /\ last'.read_failed /\ watchers.levelid # None)
          => watchers'.levelid[1].current = watchers.levelid[1].current]_vars

\* ------------------------------------------------------------------------
\* C14
\* ------------------------------------------------------------------------

\* C14 as claimed: the current Acts of successive updates are monotone in
\* the progression order: an update never changes current to an Act that
\* comes earlier in the progression than the previous current Act.
C14_Monotone ==
    [][(/\ TickStep /\ last'.updated /\ watchers.levelid # None
        /\ watchers.levelid[1].current # "None"
        /\ watchers'.levelid[1].current # "None")
          => ActRank(watchers'.levelid[1].current) >= ActRank(watchers.levelid[1].current)]_vars

\* C14 as amended: the current Act follows the game.  After an update whose
\* room name is an act token the current Act is that token's Act, whether
\* it comes later or earlier in the progression than the previous current
\* Act; after any other update it is the previous current Act.
C14_FollowsSample ==
    [][(TickStep /\ last'.updated)
          => /\ watchers'.levelid # None
             /\ ActOfRoom(last'.room_name) # None
                    => watchers'.levelid[1].current = ActOfRoom(last'.room_name)[1]
             /\ (ActOfRoom(last'.room_name) = None /\ watchers.levelid # None)
                    => watchers'.levelid[1].current = watchers.levelid[1].current]_vars

\* After the credits the game was found in Zone Zero again.
C14_Witness ==
    /\ last.updated /\ last.room_name = "rmZONE0"
    /\ watchers.levelid = ActPair("Credits", "ZoneZero")

\* ------------------------------------------------------------------------
\* C15
\* ------------------------------------------------------------------------

\* The DataSelect -> GameStart test holds after an update exactly when the
\* update before it sampled rmDataSelect and this one rmGameStart.
C15_AdjacentStep ==
    (TickStep /\ last'.updated)
        => (C3_Transition(watchers')
               <=> (last.updated /\ last.room_name = "rmDataSelect"
                       /\ last'.room_name = "rmGameStart"))

\* The Act pair keeps the predecessor through samples that are no act
\* tokens: the target's sample then makes should_split true.
C15_ActStep ==
    \A e \in SplitEdges :
        (/\ last.updated /\ ActOfRoom(last.room_name) = None
         /\ watchers.levelid # None /\ watchers.levelid[1].current = e[1]
         /\ TickStep /\ last'.updated /\ ActOfRoom(last'.room_name) = Some(e[2]))
            => State_split(Some(DefaultSettings), watchers')

\* C15: GameState has no retention.  The DataSelect -> GameStart test is
\* true after an update only if the immediately preceding update sampled
\* rmDataSelect and this one rmGameStart; any sample between them (the
\* empty token of a failed read included) makes it false, whereas the split
\* of the Act pair still fires after unrecognized samples between
\* predecessor and target.
C15_NoRetention == [][C15_AdjacentStep /\ C15_ActStep]_vars

\* rmGameStart was sampled right after a sample that was not rmDataSelect,
\* while the Act pair still held Zone Zero from an earlier sample.
C15_Witness ==
    /\ last.updated /\ last.room_name = "rmGameStart"
    /\ watchers.state = Some([old |-> "Other", current |-> "GameStart"])
    /\ watchers.levelid = ActPair("ZoneZero", "ZoneZero")
    /\ ~State_start(settings, watchers)

\* ------------------------------------------------------------------------
\* C16
\* ------------------------------------------------------------------------

\* The width of a pointer of the attached game: 8 or 4 bytes.
C16_Width == IF game[1].is_64_bit THEN 8 ELSE 4

\* C16 as claimed: the pointer-sized slot that is read is at
\* room_id_array_address + room_id * pointer_size.
C16_SlotAtArrayAddress ==
    (last.updated /\ Len(last.reads) >= 3)
        => last.reads[3] = game[1].addresses[1].room_id_array + last.room_id * C16_Width

\* C16 as amended: the room-name address chain.  The pointer to the room
\* array is read at room_id_array_address; the pointer-sized slot that is
\* read is at that pointer + room_id * pointer_size (8 for a 64-bit target,
\* 4 for a 32-bit one), which is the slot of room room_id; the name bytes
\* are read at the address stored in that slot and are the name of that
\* room; when one of the three reads fails the token is empty.
C16_AddressChain ==
    last.updated
        => /\ Len(last.reads) >= 2
           /\ last.reads[1] = game[1].addresses[1].room_id
           /\ last.reads[2] = game[1].addresses[1].room_id_array
           /\ Len(last.reads) >= 3
                  => /\ last.reads[3]
                          = Mem(proc[1], last.room_id, last.reads[2])[1]
                              + last.room_id * C16_Width
                     /\ last.reads[3] = SlotOf(proc[1], last.room_id)
           /\ Len(last.reads) >= 4
                  => /\ last.reads[4] = Mem(proc[1], last.room_id, last.reads[3])[1]
                     /\ last.reads[4] = StringOf(proc[1], last.room_id)
           /\ last.name_read
                  => /\ Len(last.reads) = 4
                     /\ Some(last.room_name) = NameAt(proc[1], Some(last.room_id))
           /\ ~last.name_read => last.room_name = ""

\* A 64-bit game was sampled in a room other than room 0, all reads
\* succeeding.
C16_Witness ==
    /\ last.updated /\ last.name_read /\ ~last.read_failed
    /\ game[1].is_64_bit /\ last.room_id = 2
    /\ last.room_name = "rmGameStart"
    /\ last.reads[3] = SlotOf(proc[1], 2)
    /\ last.reads[3] # last.reads[2] + 2 * 8

\* ------------------------------------------------------------------------
\* C17
\* ------------------------------------------------------------------------

\* The tick that finds the process closed leaves the watcher pairs alone.
C17_ClosedStep ==
    (TickStep /\ last'.kind = "closed") => watchers' = watchers

\* The first update of an attachment (the tick that resolved the
\* addresses) when an earlier attachment left an Act pair behind.
C17_FirstUpdateStep ==
    (TickStep /\ last'.updated /\ last'.resolve = "ok" /\ watchers.levelid # None)
        => /\ watchers'.levelid[1].old = watchers.levelid[1].current
           /\ ActOfRoom(last'.room_name) = None
                  => watchers'.levelid[1].current = watchers.levelid[1].current

\* The first update ever fills both fields of the pair: no split.
C17_FirstEverStep ==
    (TickStep /\ last'.updated /\ watchers.levelid = None)
        => \A st \in PolicySnapshots : ~State_split(st, watchers')

\* C17: the watcher pairs survive re-attachment.  After the process was
\* detected closed and a new process attached and resolved, the first
\* update of the new attachment takes as old (and, for an unrecognized
\* token, as current) the current Act the previous attachment left, so
\* should_split can be true on that update; on the first update ever it
\* cannot.
C17_WatchersSurvive == [][C17_ClosedStep /\ C17_FirstUpdateStep /\ C17_FirstEverStep]_vars

\* The first update of the second process split: the first process left
\* Zone Zero, the second was found in Great Turquoise 1.
C17_Witness ==
    /\ last.updated /\ last.resolve = "ok" /\ last.room_name = "rmGTZ1"
    /\ game # None /\ game[1].game = 2
    /\ watchers.levelid = ActPair("ZoneZero", "GreatTurquoise1")
    /\ State_split(settings, watchers)
    /\ last.cmds = <<"split">>

\* ------------------------------------------------------------------------
\* C18
\* ------------------------------------------------------------------------

\* The commands the splitting logic issues from the current watchers under
\* the settings st, the timer state ts and the host's reactions h.
CmdsUnder(st, ts, h) == SplittingLogic(st, watchers, ts, h).cmds

Holds(cmds, cmd) == \E k \in DOMAIN cmds : cmds[k] = cmd

\* C18: should_split and the DataSelect -> GameStart test (should_start,
\* should_reset) are never both true, under any settings: the update that
\* sampled rmGameStart left old = current in the Act pair.  A tick that
\* issues timer::reset() therefore never passes over a split that would
\* have fired.
C18_SplitNotWithStart ==
    /\ C3_Transition(watchers) => Settled(watchers.levelid)
    /\ \A st \in PolicySnapshots :
           /\ ~(State_split(st, watchers) /\ C3_Transition(watchers))
           /\ ~(State_split(st, watchers) /\ State_start(st, watchers))
           /\ ~(State_split(st, watchers) /\ State_reset(st, watchers))
           /\ \A ts \in TimerState : \A h \in HostChoices :
                  Holds(CmdsUnder(st, ts, h), "reset") => ~State_split(st, watchers)

\* The start screen was left for the game while the Act pair still held
\* Great Turquoise 2 from the run before: start and reset are due, split is
\* not.
C18_Witness ==
    /\ last.updated /\ last.room_name = "rmGameStart"
    /\ C3_Transition(watchers)
    /\ watchers.levelid = ActPair("GreatTurquoise2", "GreatTurquoise2")
    /\ State_reset(settings, watchers) /\ ~State_split(settings, watchers)

\* ------------------------------------------------------------------------
\* C19
\* ------------------------------------------------------------------------

\* should_split holds only when the last update changed the current Act.
C19_OnlyOnChange ==
    \A st \in PolicySnapshots :
        State_split(st, watchers)
            => /\ last.updated
               /\ watchers.levelid[1].old # watchers.levelid[1].current

\* An update that leaves the current Act as it was (a repeated sample, an
\* unrecognized one, another room of the same Act) leaves no split due.
C19_SameActStep ==
    (/\ TickStep /\ last'.updated /\ watchers.levelid # None
     /\ watchers'.levelid[1].current = watchers.levelid[1].current)
        => \A st \in PolicySnapshots : ~State_split(st, watchers')

\* timer::split() is issued at most once, and only from a pair whose
\* current Act has just changed.
C19_OneSplit ==
    \A st \in PolicySnapshots : \A ts \in TimerState : \A h \in HostChoices :
        Holds(CmdsUnder(st, ts, h), "split")
            => /\ watchers.levelid # None
               /\ watchers.levelid[1].old # watchers.levelid[1].current
               /\ Cardinality({k \in DOMAIN CmdsUnder(st, ts, h) :
                                   CmdsUnder(st, ts, h)[k] = "split"}) = 1

\* C19: should_split is true only in a tick whose update changed the
\* current Act (old # current); the next update shifts the pair, so a
\* repeated, unrecognized or same-Act sample (rmRWZ_Awa then rmRWZ2,
\* rmFinalEnding then rmCredits) never gives a second split, and each
\* change of the current Act causes at most one timer::split().
C19_SplitOncePerChange ==
    [](C19_OnlyOnChange /\ C19_OneSplit) /\ [][C19_SameActStep]_vars

\* rmRWZ2 was sampled while the current Act was Robotnik Winter 2 already,
\* kept through a sample of the start screen: no split is due.
C19_Witness ==
    /\ last.updated /\ ~last.repeated /\ last.room_name = "rmRWZ2"
    /\ watchers.levelid = ActPair("RobotnikWinter2", "RobotnikWinter2")
    /\ watchers.state = Some([old |-> "GameStart", current |-> "Other"])
    /\ ~State_split(settings, watchers)

\* ------------------------------------------------------------------------
\* C20
\* ------------------------------------------------------------------------

\* The last tick updated with the timer Running or Paused, left the
\* GameState pair at DataSelect -> GameStart, and reset and start are both
\* enabled.
C20_Case ==
    /\ last.updated /\ last.ts1 \in {"Running", "Paused"}
    /\ C3_Transition(watchers)
    /\ settings # None /\ settings[1].reset /\ settings[1].start

\* C20: reset and start can both be issued in one tick.  In a tick where
\* the timer is Running or Paused, the GameState pair is DataSelect ->
\* GameStart and both toggles are enabled, timer::reset() is issued and,
\* the timer state being read again after it, timer::start() is issued in
\* the same tick exactly if the timer then reports NotRunning; the two
\* commands follow one update, reset first.
C20_ResetAndStart ==
    /\ C20_Case
           => /\ Issued("reset") /\ ~Issued("split")
              /\ last.ts2 = "NotRunning" => last.cmds = <<"reset", "start">>
              /\ last.ts2 # "NotRunning" => last.cmds = <<"reset">>
    /\ (Issued("reset") /\ Issued("start"))
           => last.updated /\ last.cmds = <<"reset", "start">>

\* A tick reset the paused timer and started it again.
C20_Witness ==
    /\ C20_Case /\ last.ts1 = "Paused" /\ last.ts2 = "NotRunning"
    /\ last.cmds = <<"reset", "start">>
    /\ timer = "Running"

====
